---- MODULE Spec2Model ----
(***************************************************************************)
(* The Evolved Transformer of model/evolved.py as a state machine.         *)
(*                                                                         *)
(* A tensor is modelled by what the checked properties need of it:         *)
(*   - its shape (batch b, sequence length l, channel width w, and cf,     *)
(*     whether it is laid out channel-first after transpose(1, 2)),        *)
(*   - deps[r][i], the set of input positions that position i of batch row *)
(*     r has read (its data dependencies),                                 *)
(*   - term, the expression that computed it; a Python variable is         *)
(*     referred to as <<"ref", name, line of the assignment>>.             *)
(* An exception is the value Raise(kind); every operation passes one on.   *)
(***************************************************************************)
EXTENDS Integers, Sequences, FiniteSets, TLC

VARIABLES config, self, op, args, ret

vars == <<config, self, op, args, ret>>

(* ------------------------------ bounds --------------------------------- *)
MaxLayers == 3
MaxSeqLen == 3

BatchSizes == {1, 2}
HiddenDims == {4, 6}
HeadCounts == {1, 2}
PffDims == {1, 8}
EmbDims == {4}
VocabSizes == {2}

Configs ==
    { c \in [n_layers : 0..MaxLayers, hidden_dim : HiddenDims, n_heads : HeadCounts,
             pff_dim : PffDims, emb_dim : EmbDims, vocab_size : VocabSizes,
             pad_id : 0..1] : c.pad_id < c.vocab_size }

\* Token id batches: b rows of one common length l, ids in [0, vocab_size).
TokenBatches(vocab_size) ==
    UNION { [1..b -> [1..l -> 0..(vocab_size - 1)]] : b \in BatchSizes, l \in 1..MaxSeqLen }

\* The batch whose b rows all count up from id first (modulo vocab_size).
CountingBatch(b, l, first, vocab_size) ==
    [r \in 1..b |-> [i \in 1..l |-> (first + i - 1) % vocab_size]]

Min(a, b) == IF a < b THEN a ELSE b
Max(a, b) == IF a < b THEN b ELSE a

(* ------------------------- Python values ------------------------------- *)
None == [tag |-> "None"]
Raise(kind) == [tag |-> "raise", ok |-> FALSE, err |-> kind]
PyBool(v) == [tag |-> "bool", ok |-> TRUE, val |-> v]
PyTuple(a, b) == [tag |-> "tuple", ok |-> TRUE, fst |-> a, snd |-> b]

\* A token id tensor of shape (b, l).
Ids(rows) == [tag |-> "ids", ok |-> TRUE, rows |-> rows]
\* A boolean tensor; rows[r][k] is entry (r, k).
BoolTensor(rows) == [tag |-> "mask", ok |-> TRUE, rows |-> rows]

Tensor(b, l, w, deps, term) ==
    [tag |-> "tensor", ok |-> TRUE, b |-> b, l |-> l, w |-> w, cf |-> FALSE,
     deps |-> deps, term |-> term]

IsTensor(t) == t.tag = "tensor"

\* The named input of a forward call: position i has read only itself.
Input(name, b, l, w) ==
    Tensor(b, l, w, [r \in 1..b |-> [i \in 1..l |-> {<<name, i>>}]], <<"ref", name, 0>>)

\* The tensor a Python variable holds, as later expressions refer to it.
Var(name, line, t) == IF IsTensor(t) THEN [t EXCEPT !.term = <<"ref", name, line>>] ELSE t

\* x.size(-1)
LastDim(t) == IF IsTensor(t) THEN (IF t.cf THEN t.l ELSE t.w) ELSE 0

AllDeps(t) == [r \in 1..t.b |-> UNION { t.deps[r][i] : i \in 1..t.l }]

(* --------------------------- tensor operations ------------------------- *)
\* x.transpose(1, 2)
transpose(t) == IF IsTensor(t) THEN [t EXCEPT !.cf = ~t.cf] ELSE t

\* Elementwise unary operation (ReLU, SiLU, dropout, scaling).
Elementwise(name, t) == IF IsTensor(t) THEN [t EXCEPT !.term = <<name, t.term>>] ELSE t

\* nn.LayerNorm(n) normalizes over the last dimension, which must be n wide.
LayerNorm(name, n, t) ==
    IF ~IsTensor(t) THEN t
    ELSE IF LastDim(t) # n THEN Raise("RuntimeError")
    ELSE IF t.cf
         THEN [t EXCEPT !.deps = [r \in 1..t.b |-> [i \in 1..t.l |-> AllDeps(t)[r]]],
                        !.term = <<name, t.term>>]
         ELSE [t EXCEPT !.term = <<name, t.term>>]

\* nn.Linear(in_features, out_features) maps the last dimension.
Linear(name, in_features, out_features, t) ==
    IF ~IsTensor(t) THEN t
    ELSE IF LastDim(t) # in_features THEN Raise("RuntimeError")
    ELSE IF t.cf
         THEN [t EXCEPT !.l = out_features,
                        !.deps = [r \in 1..t.b |-> [i \in 1..out_features |-> AllDeps(t)[r]]],
                        !.term = <<name, t.term>>]
         ELSE [t EXCEPT !.w = out_features, !.term = <<name, t.term>>]

\* padding="same": dilation*(k-1) zeros in total, the smaller half on the left.
SamePadding(kernel_size) ==
    <<(kernel_size - 1) \div 2, (kernel_size - 1) - ((kernel_size - 1) \div 2)>>

\* nn.Conv1d over a (batch, channels, length) tensor, pad = <<left, right>>.
\* Output position i reads input positions i-left .. i-left+kernel_size-1.
Conv1d(name, in_channels, out_channels, kernel_size, pad, t) ==
    IF ~IsTensor(t) THEN t
    ELSE LET channels == IF t.cf THEN t.w ELSE t.l
             length == IF t.cf THEN t.l ELSE t.w
             out_len == length + pad[1] + pad[2] - (kernel_size - 1)
         IN IF channels # in_channels \/ out_len < 1 \/ out_channels < 1
            THEN Raise("RuntimeError")
            ELSE IF t.cf
            THEN [t EXCEPT
                    !.w = out_channels,
                    !.l = out_len,
                    !.deps = [r \in 1..t.b |-> [i \in 1..out_len |->
                                UNION { t.deps[r][j] :
                                        j \in Max(1, i - pad[1])..
                                              Min(length, i - pad[1] + kernel_size - 1) }]],
                    !.term = <<name, t.term>>]
            ELSE [t EXCEPT
                    !.l = out_channels,
                    !.w = out_len,
                    !.deps = [r \in 1..t.b |-> [i \in 1..out_channels |-> AllDeps(t)[r]]],
                    !.term = <<name, t.term>>]

\* F_pad with the pad width lost: the input comes back as it is.
F_pad_unpadded(t, n, v) == t

\* F.pad(input, pad=(0, n, 0,0,0,0), mode='constant', value=v): n more entries
\* on the right of the last dimension (a negative n removes entries).
F_pad(t, n, v) ==
    IF ~IsTensor(t) THEN t
    ELSE IF LastDim(t) + n < 0 THEN Raise("RuntimeError")
    ELSE IF t.cf
         THEN [t EXCEPT !.l = t.l + n,
                        !.deps = [r \in 1..t.b |-> [i \in 1..(t.l + n) |->
                                    IF i <= t.l THEN t.deps[r][i] ELSE {}]],
                        !.term = <<"F.pad", t.term>>]
         ELSE [t EXCEPT !.w = t.w + n, !.term = <<"F.pad", t.term>>]

\* Broadcasting of one dimension: equal sizes, or one of them 1; 0 when neither.
Broadcast(m, n) == IF m = n THEN m ELSE IF m = 1 THEN n ELSE IF n = 1 THEN m ELSE 0

\* a + b (inplace = FALSE) and a += b (inplace = TRUE, the result keeps a's shape).
Add(name, a, b, inplace) ==
    IF ~IsTensor(a) THEN a
    ELSE IF ~IsTensor(b) THEN b
    ELSE LET nb == Broadcast(a.b, b.b)
             d1 == Broadcast(IF a.cf THEN a.w ELSE a.l, IF b.cf THEN b.w ELSE b.l)
             d2 == Broadcast(IF a.cf THEN a.l ELSE a.w, IF b.cf THEN b.l ELSE b.w)
             nl == IF a.cf THEN d2 ELSE d1
             nw == IF a.cf THEN d1 ELSE d2
             rowOf(t, r) == IF t.b = 1 THEN 1 ELSE r
             at(t, r, i) == IF t.cf # a.cf THEN AllDeps(t)[rowOf(t, r)]
                            ELSE t.deps[rowOf(t, r)][IF t.l = 1 THEN 1 ELSE i]
         IN IF nb = 0 \/ d1 = 0 \/ d2 = 0 THEN Raise("RuntimeError")
            ELSE IF inplace /\ (nb # a.b \/ nl # a.l \/ nw # a.w) THEN Raise("RuntimeError")
            ELSE [tag |-> "tensor", ok |-> TRUE, b |-> nb, l |-> nl, w |-> nw, cf |-> a.cf,
                  deps |-> [r \in 1..nb |-> [i \in 1..nl |-> at(a, r, i) \cup at(b, r, i)]],
                  term |-> <<name, a.term, b.term>>]

\* One piece, width entries wide, of a split of the last dimension.
Narrow(name, t, width) ==
    IF ~IsTensor(t) THEN t
    ELSE IF t.cf THEN [t EXCEPT !.l = width,
                                !.deps = [r \in 1..t.b |-> [i \in 1..width |-> AllDeps(t)[r]]],
                                !.term = <<name, t.term>>]
    ELSE [t EXCEPT !.w = width, !.term = <<name, t.term>>]

(* -------------------------- nn.MultiheadAttention ---------------------- *)
\* The constructor asserts that embed_dim is divisible by num_heads.
MultiheadAttention_init(embed_dim, num_heads) ==
    num_heads > 0 /\ embed_dim > 0 /\ embed_dim % num_heads = 0

MaskOk(m, n_rows, n_cols) ==
    m.tag = "None"
    \/ (m.tag = "mask" /\ Len(m.rows) = n_rows /\ \A r \in 1..n_rows : Len(m.rows[r]) = n_cols)

Masked(m, r, k) == m.tag = "mask" /\ m.rows[r][k]

\* attention(query, key, value, attn_mask, key_padding_mask) with batch_first=True.
\* A true entry of either mask removes that key: query position i of row r reads
\* key position j iff neither attn_mask[i][j] nor key_padding_mask[r][j] is set.
MultiheadAttention(name, embed_dim, q, k, v, attn_mask, key_padding_mask) ==
    IF ~IsTensor(q) THEN q
    ELSE IF ~IsTensor(k) THEN k
    ELSE IF ~IsTensor(v) THEN v
    ELSE IF attn_mask.tag \notin {"None", "mask"} \/ key_padding_mask.tag \notin {"None", "mask"}
         THEN Raise("AttributeError")
    ELSE IF q.cf \/ k.cf \/ v.cf \/ q.w # embed_dim \/ k.w # embed_dim \/ v.w # embed_dim
            \/ k.b # q.b \/ v.b # q.b \/ k.l # v.l
         THEN Raise("AssertionError")
    ELSE IF ~MaskOk(attn_mask, q.l, k.l) \/ ~MaskOk(key_padding_mask, q.b, k.l)
         THEN Raise("RuntimeError")
    ELSE [q EXCEPT
            !.deps = [r \in 1..q.b |-> [i \in 1..q.l |->
                        q.deps[r][i] \cup
                        UNION { k.deps[r][j] \cup v.deps[r][j] :
                                j \in { jj \in 1..k.l : ~Masked(attn_mask, i, jj)
                                                        /\ ~Masked(key_padding_mask, r, jj) } }]],
            !.term = <<name, q.term, k.term, v.term, <<attn_mask.tag>>, <<key_padding_mask.tag>>>>]

(* ------------------------------- modules ------------------------------- *)
max_len == 512

\* PositionalEncoding.forward: x + pe[:, :x.size(1)], then dropout.
PositionalEncoding_forward(x) ==
    IF ~IsTensor(x) THEN x
    ELSE IF x.l > max_len THEN Raise("RuntimeError")
    ELSE Elementwise("pos_emb.dropout", Elementwise("add_pe", x))

use_fc_layer(cfg) == cfg.emb_dim # cfg.hidden_dim

\* nn.Embedding lookup of a (b, l) id tensor: one emb_dim vector per position.
tok_emb(cfg, x) ==
    IF x.tag # "ids" THEN Raise("TypeError")
    ELSE IF \E r \in 1..Len(x.rows) : \E i \in 1..Len(x.rows[r]) :
                x.rows[r][i] < 0 \/ x.rows[r][i] >= cfg.vocab_size
         THEN Raise("IndexError")
    ELSE LET t == Input("x", Len(x.rows), Len(x.rows[1]), cfg.emb_dim)
         IN [t EXCEPT !.term = <<"tok_emb", t.term>>]

\* Embeddings_forward with the projection applied after the last dropout.
Embeddings_forward_project_last(cfg, x) ==
    LET out_50 == Elementwise("scale", tok_emb(cfg, x))
        out_51 == PositionalEncoding_forward(out_50)
    IN IF use_fc_layer(cfg)
       THEN Linear("fc", cfg.emb_dim, cfg.hidden_dim, Elementwise("dropout", out_51))
       ELSE Elementwise("dropout", out_51)

Embeddings_forward(cfg, x) ==
    LET out_50 == Elementwise("scale", tok_emb(cfg, x))
        out_51 == PositionalEncoding_forward(out_50)
    IN IF use_fc_layer(cfg)
       THEN Elementwise("dropout", Linear("fc", cfg.emb_dim, cfg.hidden_dim, out_51))
       ELSE Elementwise("dropout", out_51)

\* GatedConvolution.forward (kernel_size=3, padding=1).
GatedConvolution_forward(hidden_dim, x) ==
    LET convoluted == transpose(Conv1d("glu.conv", hidden_dim, hidden_dim * 2, 3, <<1, 1>>,
                                       transpose(x)))
        size == LastDim(convoluted)
        split_size == size \div 2
    IN IF ~IsTensor(convoluted) THEN convoluted
       ELSE IF split_size = 0 THEN Raise("RuntimeError")
       ELSE IF size # 2 * split_size THEN Raise("ValueError")   \* three pieces to unpack
       ELSE Add("mul", Narrow("split_out", convoluted, split_size),
                Elementwise("sigmoid", Narrow("split_gate", convoluted, size - split_size)),
                FALSE)

\* SeparableConv1D.forward: depthwise ("same" padding), then pointwise (kernel 1).
SeparableConv1D_forward(name, in_channels, out_channels, kernel_size, x) ==
    Conv1d(name \o ".point_wise", in_channels, out_channels, 1, <<0, 0>>,
           Conv1d(name \o ".depth_wise", in_channels, in_channels, kernel_size,
                  SamePadding(kernel_size), x))

(* ------------------------- running a method body ---------------------- *)
\* A frame holds the local variables of one call (Unbound until assigned),
\* at[line], the value the statement at that line computed, and exc, the
\* exception that ended the call, if any.
Unbound == [tag |-> "unbound", ok |-> FALSE]
NoLines == [line \in {} |-> Unbound]

\* name = value, at the given line; a raised exception ends the call instead.
Assign(env, name, line, value) ==
    IF value.tag = "raise" THEN [env EXCEPT !.exc = value]
    ELSE [env EXCEPT ![name] = Var(name, line, value), !.at = (line :> value) @@ @]

\* What the call gives its caller: the exception, or the value of `name`.
Result(env, name) == IF env.exc.tag = "raise" THEN env.exc ELSE env[name]

(* ------------------------------ EncoderCell ---------------------------- *)
\* EncoderCell.__init__ succeeds iff its attention can be built.
EncoderCell_init(cfg) == MultiheadAttention_init(cfg.hidden_dim, cfg.n_heads)

\* self.pff: Linear(hidden_dim, pff_dim), SiLU, Linear(pff_dim, hidden_dim).
EncoderCell_pff(cfg, t) ==
    Linear("pff[2]", cfg.pff_dim, cfg.hidden_dim,
           Elementwise("SiLU", Linear("pff[0]", cfg.hidden_dim, cfg.pff_dim, t)))

EncoderCell_lines == <<150, 154, 156, 157, 159, 165, 169, 171, 175, 181, 185, 187, 193, 197, 198>>

\* The statement of EncoderCell.forward at `line`, run in frame env.
EncoderCell_stmt(cfg, line, env) ==
    CASE line = 150 ->
            Assign(env, "B01_out", 150,
                   GatedConvolution_forward(cfg.hidden_dim,
                       LayerNorm("layer_norms[0]", cfg.hidden_dim, env.x)))
      [] line = 154 ->
            Assign(env, "B02_normed", 154,
                   LayerNorm("layer_norms[1]", cfg.hidden_dim, env.B01_out))
      [] line = 156 ->
            Assign(env, "left_out", 156,
                   Elementwise("Dropout", Elementwise("ReLU",
                       Linear("left_net", cfg.hidden_dim, cfg.pff_dim, env.B02_normed))))
      [] line = 157 ->
            Assign(env, "right_out", 157,
                   transpose(Elementwise("Dropout", Elementwise("ReLU",
                       Conv1d("right_net", cfg.hidden_dim, cfg.hidden_dim \div 2, 3, <<1, 1>>,
                              transpose(env.B02_normed))))))
      [] line = 159 ->
            Assign(env, "right_out", 159,
                   F_pad(env.right_out, LastDim(env.left_out) - LastDim(env.right_out),
                         cfg.pad_id))
      [] line = 165 ->
            Assign(env, "B02_out", 165, Add("add", env.left_out, env.right_out, FALSE))
      [] line = 169 ->
            Assign(env, "B03_out", 169, LayerNorm("mid_layer_norm", cfg.pff_dim, env.B02_out))
      [] line = 171 ->
            Assign(env, "B03_out", 171,
                   transpose(SeparableConv1D_forward("sep_conv", cfg.pff_dim,
                                 cfg.hidden_dim \div 2, 9, transpose(env.B03_out))))
      [] line = 175 ->
            Assign(env, "B03_out", 175,
                   F_pad(env.B03_out, LastDim(env.B01_out) - LastDim(env.B03_out), cfg.pad_id))
      [] line = 181 ->
            Assign(env, "B03_out", 181, Add("iadd", env.B03_out, env.B01_out, TRUE))
      [] line = 185 ->
            Assign(env, "B04_out", 185, LayerNorm("layer_norms[2]", cfg.hidden_dim, env.B03_out))
      [] line = 187 ->
            Assign(env, "attention_out", 187,
                   MultiheadAttention("attention", cfg.hidden_dim,
                                      env.B04_out, env.B04_out, env.B04_out, None, env.e_mask))
      [] line = 193 ->
            Assign(env, "B04_out", 193, Add("iadd", env.B04_out, env.attention_out, TRUE))
      [] line = 197 ->
            Assign(env, "out", 197, LayerNorm("layer_norms[3]", cfg.hidden_dim, env.B04_out))
      [] line = 198 ->
            Assign(env, "out", 198, Add("add", EncoderCell_pff(cfg, env.out), env.B04_out, FALSE))

\* The statements run in order, each in the frame the one before it left.
RECURSIVE EncoderCell_run(_, _, _)
EncoderCell_run(cfg, lines, env) ==
    IF lines = <<>> \/ env.exc.tag = "raise" THEN env
    ELSE CHOOSE frame \in { EncoderCell_run(cfg, Tail(lines), next) :
                            next \in {EncoderCell_stmt(cfg, Head(lines), env)} } : TRUE

\* EncoderCell.forward(x, e_mask): the frame at its return.
EncoderCell_forward(cfg, x, e_mask) ==
    EncoderCell_run(cfg, EncoderCell_lines,
        [x |-> x, e_mask |-> e_mask, B01_out |-> Unbound, B02_normed |-> Unbound,
         left_out |-> Unbound, right_out |-> Unbound, B02_out |-> Unbound,
         B03_out |-> Unbound, B04_out |-> Unbound, attention_out |-> Unbound,
         out |-> Unbound, at |-> NoLines, exc |-> None])

(* ------------------------------ DecoderCell ---------------------------- *)
\* DecoderCell.__init__ builds attentions with n_heads and with 2 * n_heads.
DecoderCell_init(cfg) ==
    /\ MultiheadAttention_init(cfg.hidden_dim, cfg.n_heads)
    /\ MultiheadAttention_init(cfg.hidden_dim, cfg.n_heads * 2)

\* self.pff: Linear(hidden_dim, pff_dim), ReLU, Linear(pff_dim, hidden_dim).
DecoderCell_pff(cfg, t) ==
    Linear("pff[2]", cfg.pff_dim, cfg.hidden_dim,
           Elementwise("ReLU", Linear("pff[0]", cfg.hidden_dim, cfg.pff_dim, t)))

DecoderCell_lines ==
    <<260, 262, 268, 274, 278, 279, 280, 282, 288, 291, 292, 293, 297, 299, 305, 309, 311,
      317, 321, 322>>

\* The statement of DecoderCell.forward at `line`, run in frame env.
DecoderCell_stmt(cfg, line, env) ==
    CASE line = 260 ->
            Assign(env, "B01_out", 260, LayerNorm("layer_norms[0]", cfg.hidden_dim, env.x))
      [] line = 262 ->
            Assign(env, "left_out", 262,
                   MultiheadAttention("left_attn", cfg.hidden_dim,
                                      env.B01_out, env.B01_out, env.B01_out, env.d_mask, None))
      [] line = 268 ->
            Assign(env, "right_out", 268,
                   MultiheadAttention("right_attn", cfg.hidden_dim,
                                      env.B01_out, env.B01_out, env.B01_out, env.d_mask, None))
      [] line = 274 ->
            Assign(env, "B01_out", 274, Add("add", env.left_out, env.right_out, FALSE))
      [] line = 278 ->
            Assign(env, "B02_out", 278, LayerNorm("layer_norms[1]", cfg.hidden_dim, env.B01_out))
      [] line = 279 ->
            Assign(env, "left_out", 279,
                   transpose(Elementwise("ReLU",
                       SeparableConv1D_forward("left_net", cfg.hidden_dim, cfg.hidden_dim * 2,
                                               11, transpose(env.B02_out)))))
      [] line = 280 ->
            Assign(env, "right_out", 280,
                   transpose(SeparableConv1D_forward("right_net", cfg.hidden_dim,
                                 cfg.hidden_dim \div 2, 7, transpose(env.B02_out))))
      [] line = 282 ->
            Assign(env, "right_out", 282,
                   F_pad(env.right_out, LastDim(env.left_out) - LastDim(env.right_out),
                         cfg.pad_id))
      [] line = 288 ->
            Assign(env, "B02_out", 288, Add("add", env.left_out, env.right_out, FALSE))
      [] line = 291 ->
            Assign(env, "B03_out", 291,
                   LayerNorm("mid_layer_norm", cfg.hidden_dim * 2, env.B02_out))
      [] line = 292 ->
            Assign(env, "B03_out", 292,
                   transpose(SeparableConv1D_forward("sep_conv", cfg.hidden_dim * 2,
                                 cfg.hidden_dim, 7, transpose(env.B03_out))))
      [] line = 293 ->
            Assign(env, "B03_out", 293, Add("iadd", env.B03_out, env.B01_out, TRUE))
      [] line = 297 ->
            Assign(env, "B04_out", 297, LayerNorm("layer_norms[2]", cfg.hidden_dim, env.B03_out))
      [] line = 299 ->
            Assign(env, "B04_out", 299,
                   MultiheadAttention("self_attn", cfg.hidden_dim,
                                      env.B04_out, env.B04_out, env.B04_out, env.d_mask, None))
      [] line = 305 ->
            Assign(env, "B04_out", 305, Add("iadd", env.B04_out, env.B03_out, TRUE))
      [] line = 309 ->
            Assign(env, "B05_out", 309, LayerNorm("layer_norms[3]", cfg.hidden_dim, env.B04_out))
      [] line = 311 ->
            Assign(env, "B05_out", 311,
                   MultiheadAttention("src_attn", cfg.hidden_dim,
                                      env.B05_out, env.memory, env.memory, None, env.e_mask))
      [] line = 317 ->
            Assign(env, "B05_out", 317, Add("iadd", env.B05_out, env.B04_out, TRUE))
      [] line = 321 ->
            Assign(env, "out", 321, LayerNorm("layer_norms[4]", cfg.hidden_dim, env.B05_out))
      [] line = 322 ->
            Assign(env, "out", 322, Add("add", DecoderCell_pff(cfg, env.out), env.B05_out, FALSE))

RECURSIVE DecoderCell_run(_, _, _)
DecoderCell_run(cfg, lines, env) ==
    IF lines = <<>> \/ env.exc.tag = "raise" THEN env
    ELSE CHOOSE frame \in { DecoderCell_run(cfg, Tail(lines), next) :
                            next \in {DecoderCell_stmt(cfg, Head(lines), env)} } : TRUE

\* DecoderCell.forward(x, memory, e_mask, d_mask): the frame at its return.
DecoderCell_forward(cfg, x, memory, e_mask, d_mask) ==
    DecoderCell_run(cfg, DecoderCell_lines,
        [x |-> x, memory |-> memory, e_mask |-> e_mask, d_mask |-> d_mask,
         B01_out |-> Unbound, left_out |-> Unbound, right_out |-> Unbound,
         B02_out |-> Unbound, B03_out |-> Unbound, B04_out |-> Unbound,
         B05_out |-> Unbound, out |-> Unbound, at |-> NoLines, exc |-> None])

(* ------------------------ EvolvedEncoder / EvolvedDecoder -------------- *)
\* clones(module, N): one copy per element of range(N).
clones(N) == Max(0, N)

\* cell(x, src_key_padding_mask=e_mask): Python binds the arguments to the
\* parameters (x, e_mask) of EncoderCell.forward before the body runs.
EncoderCell_call(cfg, x, keyword, e_mask) ==
    IF keyword \notin {"x", "e_mask"} THEN Raise("TypeError")
    ELSE Result(EncoderCell_forward(cfg, x, e_mask), "out")

\* for cell in self.cells: x = cell(x, src_key_padding_mask=e_mask)
RECURSIVE EncoderCells(_, _, _, _)
EncoderCells(cfg, n, x, e_mask) ==
    IF n = 0 \/ x.tag = "raise" THEN x
    ELSE CHOOSE out \in { EncoderCells(cfg, n - 1, next, e_mask) :
                          next \in {EncoderCell_call(cfg, x, "src_key_padding_mask", e_mask)} } : TRUE

EvolvedEncoder_forward(m, x, e_mask) ==
    CHOOSE out \in { EncoderCells(m.cfg, m.encoder_cells, embedded, e_mask) :
                     embedded \in {Embeddings_forward(m.cfg, x)} } : TRUE

\* for cell in self.cells: x = cell(x, memory, e_mask, d_mask)
RECURSIVE DecoderCells(_, _, _, _, _, _)
DecoderCells(cfg, n, x, memory, e_mask, d_mask) ==
    IF n = 0 \/ x.tag = "raise" THEN x
    ELSE CHOOSE out \in { DecoderCells(cfg, n - 1, next, memory, e_mask, d_mask) :
                          next \in {Result(DecoderCell_forward(cfg, x, memory, e_mask, d_mask),
                                           "out")} } : TRUE

EvolvedDecoder_forward(m, x, memory, e_mask, d_mask) ==
    CHOOSE out \in { DecoderCells(m.cfg, m.decoder_cells, embedded, memory, e_mask, d_mask) :
                     embedded \in {Embeddings_forward(m.cfg, x)} } : TRUE

(* --------------------------- EvolvedTransformer ------------------------ *)
\* A field of the namedtuple class 'Out' that nothing has been assigned to.
Field(name) == [tag |-> "field", ok |-> TRUE, name |-> name]

\* PositionalEncoding.__init__ fills pe[:, 0::2] and pe[:, 1::2] from one
\* div_term, which fits both only when emb_dim is even.
PositionalEncoding_init(cfg) == cfg.emb_dim > 0 /\ cfg.emb_dim % 2 = 0

\* EvolvedTransformer.__init__: the encoder, the decoder, the criterion, self.out.
EvolvedTransformer_init(cfg) ==
    IF ~PositionalEncoding_init(cfg) THEN Raise("RuntimeError")
    ELSE IF ~EncoderCell_init(cfg) \/ ~DecoderCell_init(cfg) THEN Raise("AssertionError")
    ELSE [tag |-> "EvolvedTransformer", ok |-> TRUE, cfg |-> cfg,
          encoder_cells |-> clones(cfg.n_layers \div 2),
          decoder_cells |-> clones(cfg.n_layers \div 2),
          out |-> [tag |-> "Out", ok |-> TRUE, logit |-> Field("logit"), loss |-> Field("loss")]]

\* pad_mask: x == self.pad_mask compares the tensor with the bound method
\* pad_mask itself. Tensor.__eq__ does not accept a method: depending on the
\* torch version it raises TypeError ("TypeError"), or answers NotImplemented
\* and Python then compares identities, giving the plain bool False ("False").
TensorEqMethod == {"False", "TypeError"}

pad_mask(m, x, eq) == IF eq = "False" THEN PyBool(FALSE) ELSE Raise("TypeError")

\* dec_mask: mask is None, and None has no method to().
dec_mask(m, x) == Raise("AttributeError")

\* shift_y: a bare return.
shift_y(y) == None

\* self.criterion = nn.CrossEntropyLoss(): the loss of logits (N, C) and labels (N).
criterion(logit, label) == [tag |-> "loss", ok |-> TRUE, logit |-> logit, label |-> label]

EvolvedTransformer_lines == <<393, 395, 396, 398, 399, 400, 402>>

\* The statement of EvolvedTransformer.forward at `line`, run in frame env.
EvolvedTransformer_stmt(m, eq, line, env) ==
    CASE line = 393 ->
            LET shifted == shift_y(env.y)
            IN IF shifted.tag # "tuple" THEN [env EXCEPT !.exc = Raise("TypeError")]
               ELSE Assign(Assign(env, "y", 393, shifted.fst), "label", 393, shifted.snd)
      [] line = 395 -> Assign(env, "e_mask", 395, pad_mask(m, env.x, eq))
      [] line = 396 -> Assign(env, "d_mask", 396, dec_mask(m, env.y))
      [] line = 398 -> Assign(env, "memory", 398, EvolvedEncoder_forward(m, env.x, env.e_mask))
      [] line = 399 ->
            Assign(env, "dec_out", 399,
                   EvolvedDecoder_forward(m, env.y, env.memory, env.e_mask, env.d_mask))
      [] line = 400 ->
            Assign(env, "logit", 400,
                   Linear("generator", m.cfg.hidden_dim, m.cfg.vocab_size, env.dec_out))
      [] line = 402 -> [env EXCEPT !.self_out.logit = env.logit]

RECURSIVE EvolvedTransformer_run(_, _, _, _)
EvolvedTransformer_run(m, eq, lines, env) ==
    IF lines = <<>> \/ env.exc.tag = "raise" THEN env
    ELSE CHOOSE frame \in { EvolvedTransformer_run(m, eq, Tail(lines), next) :
                            next \in {EvolvedTransformer_stmt(m, eq, Head(lines), env)} } : TRUE

\* EvolvedTransformer.forward(x, y): the frame at its end; eq is what the
\* comparison inside pad_mask does. self_out is self.out, which line 405 returns.
forward(m, x, y, eq) ==
    EvolvedTransformer_run(m, eq, EvolvedTransformer_lines,
        [x |-> x, y |-> y, label |-> Unbound, e_mask |-> Unbound, d_mask |-> Unbound,
         memory |-> Unbound, dec_out |-> Unbound, logit |-> Unbound,
         self_out |-> m.out, at |-> NoLines, exc |-> None])

(* ------------------------------ call inputs ---------------------------- *)
\* Key-padding masks of right-padded batches: row r ends in pads[r] pad positions.
PadMasks(b, s) ==
    { BoolTensor([r \in 1..b |-> [j \in 1..s |-> j > s - pads[r]]]) : pads \in [1..b -> 0..(s - 1)] }

\* The strict upper triangle: entry (i, j) is set iff j > i.
CausalMask(l) == BoolTensor([i \in 1..l |-> [j \in 1..l |-> j > i]])

(* ------------------------------- the machine --------------------------- *)
\* config: the configuration last handed to EvolvedTransformer(config);
\* self: the model built from it, or the exception its construction raised;
\* op, args, ret: the method called on it last, its arguments and its outcome
\* (for forward and the cells' forward: the frame of the call at its end).
NoArgs == [none |-> TRUE]

Init ==
    /\ config \in Configs
    /\ self = EvolvedTransformer_init(config)
    /\ op = "none"
    /\ args = NoArgs
    /\ ret = None

Construct(cfg) ==
    /\ op = "none"
    /\ config' = cfg
    /\ self' = EvolvedTransformer_init(cfg)
    /\ UNCHANGED <<op, args, ret>>

Call_shift_y(y) ==
    /\ op = "none" /\ self.ok
    /\ op' = "shift_y"
    /\ args' = [y |-> Ids(y)]
    /\ ret' = shift_y(Ids(y))
    /\ UNCHANGED <<config, self>>

Call_pad_mask(x, eq) ==
    /\ op = "none" /\ self.ok
    /\ op' = "pad_mask"
    /\ args' = [x |-> Ids(x)]
    /\ ret' = pad_mask(self, Ids(x), eq)
    /\ UNCHANGED <<config, self>>

Call_dec_mask(b, l) ==
    /\ op = "none" /\ self.ok
    /\ op' = "dec_mask"
    /\ args' = [x |-> Ids(CountingBatch(b, l, 0, self.cfg.vocab_size))]
    /\ ret' = dec_mask(self, args'.x)
    /\ UNCHANGED <<config, self>>

Call_forward(b, src_len, tgt_len, first_x, first_y, eq) ==
    /\ op = "none" /\ self.ok
    /\ op' = "forward"
    /\ args' = [x |-> Ids(CountingBatch(b, src_len, first_x, self.cfg.vocab_size)),
                y |-> Ids(CountingBatch(b, tgt_len, first_y, self.cfg.vocab_size))]
    /\ ret' = forward(self, args'.x, args'.y, eq)
    /\ self' = [self EXCEPT !.out = ret'.self_out]
    /\ UNCHANGED config

Call_Embeddings_forward(x) ==
    /\ op = "none" /\ self.ok
    /\ op' = "Embeddings.forward"
    /\ args' = [x |-> Ids(x)]
    /\ ret' = Embeddings_forward(self.cfg, Ids(x))
    /\ UNCHANGED <<config, self>>

Call_EncoderCell_forward(b, l, w, e_mask) ==
    /\ op = "none" /\ self.ok /\ self.encoder_cells >= 1
    /\ op' = "EncoderCell.forward"
    /\ args' = [x |-> Input("x", b, l, w), e_mask |-> e_mask]
    /\ ret' = EncoderCell_forward(self.cfg, args'.x, e_mask)
    /\ UNCHANGED <<config, self>>

Call_DecoderCell_forward(b, l, s, w, e_mask, d_mask) ==
    /\ op = "none" /\ self.ok /\ self.decoder_cells >= 1
    /\ op' = "DecoderCell.forward"
    /\ args' = [x |-> Input("x", b, l, w),
                memory |-> Input("memory", b, s, self.cfg.hidden_dim),
                e_mask |-> e_mask, d_mask |-> d_mask]
    /\ ret' = DecoderCell_forward(self.cfg, args'.x, args'.memory, e_mask, d_mask)
    /\ UNCHANGED <<config, self>>

Call_EvolvedEncoder_forward(b, l, first, e_mask) ==
    /\ op = "none" /\ self.ok
    /\ op' = "EvolvedEncoder.forward"
    /\ args' = [x |-> Ids(CountingBatch(b, l, first, self.cfg.vocab_size)), e_mask |-> e_mask]
    /\ ret' = EvolvedEncoder_forward(self, args'.x, e_mask)
    /\ UNCHANGED <<config, self>>

Call_EvolvedDecoder_forward(b, l, s, e_mask, d_mask) ==
    /\ op = "none" /\ self.ok
    /\ op' = "EvolvedDecoder.forward"
    /\ args' = [x |-> Ids(CountingBatch(b, l, 0, self.cfg.vocab_size)),
                memory |-> Input("memory", b, s, self.cfg.hidden_dim),
                e_mask |-> e_mask, d_mask |-> d_mask]
    /\ ret' = EvolvedDecoder_forward(self, args'.x, args'.memory, e_mask, d_mask)
    /\ UNCHANGED <<config, self>>

\* The caller takes the outcome of the call; the model is ready for the next.
Return ==
    /\ op # "none"
    /\ op' = "none"
    /\ args' = NoArgs
    /\ ret' = None
    /\ UNCHANGED <<config, self>>

\* The inputs of a call are drawn only where a call can start: on a built
\* model, once the outcome of the call before has been taken.
Inputs(S) == IF op = "none" /\ self.ok THEN S ELSE {}

Next ==
    \/ \E cfg \in Configs : Construct(cfg)
    \/ \E y \in Inputs(TokenBatches(config.vocab_size)) : Call_shift_y(y)
    \/ \E x \in Inputs(TokenBatches(config.vocab_size)), eq \in TensorEqMethod :
            Call_pad_mask(x, eq)
    \/ \E b \in Inputs(BatchSizes), l \in 1..MaxSeqLen : Call_dec_mask(b, l)
    \/ \E b \in Inputs(BatchSizes), src_len \in 1..MaxSeqLen, tgt_len \in 1..MaxSeqLen,
          first_x \in 0..(config.vocab_size - 1), first_y \in 0..(config.vocab_size - 1),
          eq \in TensorEqMethod :
            Call_forward(b, src_len, tgt_len, first_x, first_y, eq)
    \/ \E x \in Inputs(TokenBatches(config.vocab_size)) : Call_Embeddings_forward(x)
    \/ \E b \in Inputs(BatchSizes), l \in 1..MaxSeqLen,
          w \in {config.hidden_dim, config.hidden_dim + 1} :
            \E e_mask \in PadMasks(b, l) \cup {None} : Call_EncoderCell_forward(b, l, w, e_mask)
    \/ \E b \in Inputs(BatchSizes), l \in 1..MaxSeqLen, s \in 1..MaxSeqLen,
          w \in {config.hidden_dim, config.hidden_dim + 1} :
            \E e_mask \in PadMasks(b, s) \cup {None}, d_mask \in {CausalMask(l), None} :
                Call_DecoderCell_forward(b, l, s, w, e_mask, d_mask)
    \/ \E b \in Inputs(BatchSizes), l \in 1..MaxSeqLen, first \in 0..(config.vocab_size - 1) :
            \E e_mask \in PadMasks(b, l) \cup {None} :
                Call_EvolvedEncoder_forward(b, l, first, e_mask)
    \/ \E b \in Inputs(BatchSizes), l \in 1..MaxSeqLen, s \in 1..MaxSeqLen :
            \E e_mask \in PadMasks(b, s) \cup {None}, d_mask \in {CausalMask(l), None} :
                Call_EvolvedDecoder_forward(b, l, s, e_mask, d_mask)
    \/ Return

Spec == Init /\ [][Next]_vars

(* ------------------------------ properties ----------------------------- *)
\* The shape (b, l, w) of a tensor laid out (batch, sequence, channels).
HasShape(t, b, l, w) == IsTensor(t) /\ ~t.cf /\ t.b = b /\ t.l = l /\ t.w = w

NumRows(ids) == Len(ids.rows)
RowLen(ids) == Len(ids.rows[1])

\* C1: for source_ids (batch, src_len) and target_ids (batch, tgt_len) with
\* tgt_len >= 2 and ids in [0, vocab_size), forward completes without raising
\* and its logits have the shape (batch, tgt_len - 1, vocab_size).
C1_ForwardReturnsLogits ==
    (op = "forward" /\ RowLen(args.y) >= 2)
        => /\ ret.exc.tag # "raise"
           /\ HasShape(ret.logit, NumRows(args.y), RowLen(args.y) - 1, config.vocab_size)

C3_ShiftDropsLastAndFirst ==
    (op = "shift_y" /\ RowLen(args.y) >= 2)
        => /\ ret.tag = "tuple"
           /\ ret.fst = Ids([r \in 1..NumRows(args.y) |->
                                SubSeq(args.y.rows[r], 1, RowLen(args.y) - 1)])
           /\ ret.snd = Ids([r \in 1..NumRows(args.y) |->
                                SubSeq(args.y.rows[r], 2, RowLen(args.y))])

\* C4: pad_mask(source_ids) is a boolean tensor of the shape of source_ids whose
\* entry (b, k) is true iff source_ids[b][k] = pad_id.
C4_PadMaskMarksPadId ==
    op = "pad_mask"
        => ret = BoolTensor([r \in 1..NumRows(args.x) |-> [k \in 1..RowLen(args.x) |->
                                args.x.rows[r][k] = config.pad_id]])

\* C5: for a decoder input of length L, dec_mask is the L x L mask whose entry
\* (i, j) is set iff j > i.
C5_DecMaskIsStrictUpperTriangle ==
    op = "dec_mask" => ret = CausalMask(RowLen(args.x))

\* Position i of every row of t has read no position j > i of the input x.
ReadsNoLaterPosition(t) ==
    \A r \in 1..t.b : \A i \in 1..t.l : \A j \in (i + 1)..t.l : <<"x", j>> \notin t.deps[r][i]

\* C6: with the strict upper triangular mask as d_mask, the output of
\* DecoderCell.forward, and of EvolvedDecoder.forward, at position i has read no
\* decoder input position j > i.
C6_DecoderReadsNoLaterPosition ==
    /\ (op = "DecoderCell.forward" /\ args.d_mask.tag = "mask" /\ IsTensor(ret.out))
            => ReadsNoLaterPosition(ret.out)
    /\ (op = "EvolvedDecoder.forward" /\ args.d_mask.tag = "mask" /\ IsTensor(ret))
            => ReadsNoLaterPosition(ret)

\* C7: EncoderCell.forward and DecoderCell.forward, given an input of shape
\* (batch, seq_len, hidden_dim) with hidden_dim divisible by 2 * n_heads, return
\* an output of that shape, and the two operands of every sum in the cell have
\* the same last dimension.
C7_CellsPreserveShape ==
    /\ (op = "EncoderCell.forward" /\ args.x.w = config.hidden_dim
        /\ config.hidden_dim % (2 * config.n_heads) = 0)
            => /\ ret.exc.tag # "raise"
               /\ HasShape(ret.out, args.x.b, args.x.l, config.hidden_dim)
               /\ LastDim(ret.at[156]) = LastDim(ret.at[159])
               /\ LastDim(ret.at[175]) = LastDim(ret.at[150])
               /\ LastDim(ret.at[185]) = LastDim(ret.at[187])
               /\ LastDim(EncoderCell_pff(config, ret.at[197])) = LastDim(ret.at[193])
    /\ (op = "DecoderCell.forward" /\ args.x.w = config.hidden_dim
        /\ config.hidden_dim % (2 * config.n_heads) = 0)
            => /\ ret.exc.tag # "raise"
               /\ HasShape(ret.out, args.x.b, args.x.l, config.hidden_dim)
               /\ LastDim(ret.at[262]) = LastDim(ret.at[268])
               /\ LastDim(ret.at[279]) = LastDim(ret.at[282])
               /\ LastDim(ret.at[292]) = LastDim(ret.at[274])
               /\ LastDim(ret.at[299]) = LastDim(ret.at[293])
               /\ LastDim(ret.at[311]) = LastDim(ret.at[305])
               /\ LastDim(DecoderCell_pff(config, ret.at[321])) = LastDim(ret.at[317])

\* An encoder cell has padded its narrow branch up to the wide one and returned.
C7_Witness ==
    /\ op = "EncoderCell.forward"
    /\ args.x.w = config.hidden_dim
    /\ args.x.l >= 2
    /\ ret.exc.tag # "raise"
    /\ LastDim(ret.at[157]) < LastDim(ret.at[159])
    /\ HasShape(ret.out, args.x.b, args.x.l, config.hidden_dim)

\* C8: a configuration with an odd n_layers is refused at construction: no
\* model is built from it.
C8_OddLayersRejected == config.n_layers % 2 = 1 => self.tag = "raise"

\* The operations on the path from the token ids to the tensor with this term,
\* first to last.
RECURSIVE OpsOf(_)
OpsOf(term) == IF term[1] = "ref" THEN <<>> ELSE Append(OpsOf(term[2]), term[1])

\* C9 as stated: lookup, scale, positional encoding, the projection when
\* emb_dim # hidden_dim, and dropout once, last.
C9_DropoutOnce ==
    (op = "Embeddings.forward" /\ IsTensor(ret))
        => OpsOf(ret.term) = IF use_fc_layer(config)
                             THEN <<"tok_emb", "scale", "add_pe", "fc", "dropout">>
                             ELSE <<"tok_emb", "scale", "add_pe", "dropout">>

\* C9 as amended: lookup, scale, positional encoding, the dropout of
\* PositionalEncoding.forward, the projection when emb_dim # hidden_dim, and the
\* dropout of Embeddings.forward last: dropout is applied twice, once before and
\* once after the projection.
C9_DropoutTwice ==
    (op = "Embeddings.forward" /\ IsTensor(ret))
        => OpsOf(ret.term) = IF use_fc_layer(config)
                             THEN <<"tok_emb", "scale", "add_pe", "pos_emb.dropout", "fc", "dropout">>
                             ELSE <<"tok_emb", "scale", "add_pe", "pos_emb.dropout", "dropout">>

\* Embeddings.forward has returned a tensor it projected to hidden_dim.
C9_Witness ==
    /\ op = "Embeddings.forward"
    /\ IsTensor(ret)
    /\ use_fc_layer(config)
    /\ ret.w = config.hidden_dim

\* C10: in EncoderCell.forward the sum of Block 4 (line 193) adds the attention
\* output, computed from the layer-normalized B3, to B3 itself (the value of
\* line 181), not to its normalized copy.
C10_EncoderBlock4ResidualIsB3 ==
    (op = "EncoderCell.forward" /\ 193 \in DOMAIN ret.at)
        => /\ ret.at[185].term = <<"layer_norms[2]", <<"ref", "B03_out", 181>>>>
           /\ ret.at[187].term[2] = <<"ref", "B04_out", 185>>
           /\ {ret.at[193].term[2], ret.at[193].term[3]}
                = {<<"ref", "B03_out", 181>>, <<"ref", "attention_out", 187>>}

====
